---- MODULE Spec2Model ----
(***************************************************************************)
(* Round Robin CPU scheduling simulation                                   *)
(* (cpu_scheduling_algorithms/round_robin_scheduling.cpp).                 *)
(*                                                                         *)
(* One call of RRExecute is modelled as a state machine: Start is the code *)
(* before the while loop, LoopStep is one whole iteration of the loop,     *)
(* Return is the loop exit, TestAssert is what Test() does with the        *)
(* returned vector.  The variables below the line "history" are not        *)
(* program state: they record what the run did, for the properties.        *)
(***************************************************************************)
EXTENDS Integers, Sequences, FiniteSets, TLC

\* ------------------------------------------------------------------ bounds
MaxProcs == 3
MaxUncheckedProcs == 2
MaxArrival == 2
MaxBurst == 2
MaxTimeSlice == 2
\* uint32_t arithmetic wraps around; the model checker's integers are 32-bit
\* signed, so the wrap is modelled at this modulus, far above every time the
\* bounded inputs produce: the only wrap left is a subtraction going below 0.
WordMod == 1073741824

\* ------------------------------------------------------- program constants
kTimeSlice == 3

VARIABLES
    processes,          \* RRExecute parameter: sequence of Process
    time_slice,         \* RRExecute parameter
    caller,             \* "Test" (the self-test fixture) or "user"
    pc,                 \* "start", "loop", "done", "tested", "crashed"
    schedule,           \* std::queue<std::pair<Process, BTLeft>>
    arrived_processes,  \* std::set<uint32_t>
    results,            \* std::vector<ProcessResult>
    time_elapsed,       \* uint32_t
    current,            \* the pair handled by the latest loop iteration
    test_passed,        \* "none", "pass", "fail": assert(results == correct_results)
    \* ---- history
    cpuUsed,            \* total length of the quanta executed so far
    startedAt,          \* id -> cpuUsed at the first dequeue of id, -1 before
    ranBefore,          \* id -> ids dequeued before the first dequeue of id
    preempted,          \* ids re-enqueued with remaining burst time > 0
    contended,          \* ids that sat in the queue while another process ran
    since,              \* id -> ids dequeued since id was last enqueued
    tieAhead,           \* id -> ids admitted in the step of id's last re-enqueue
    aheadAt             \* id -> ids in the queue at id's last re-enqueue

progVars == <<processes, time_slice, caller, pc, schedule, arrived_processes,
              results, time_elapsed, current, test_passed>>
histVars == <<cpuUsed, startedAt, ranBefore, preempted, contended, since, tieAhead,
              aheadAt>>
vars == <<progVars, histVars>>

\* ---------------------------------------------------------------- helpers
Range(s) == {s[i] : i \in 1..Len(s)}

Add32(a, b) == (a + b) % WordMod

Sub32(a, b) == (a - b + WordMod) % WordMod

Process(id, at, bt) == [id |-> id, arrival_time |-> at, burst_time |-> bt]

Pair(p, left) == [first |-> p, second |-> left]

NoPair == Pair(Process(0, 0, 0), 0)

IdsOf(procs) == {procs[i].id : i \in 1..Len(procs)}

\* ProcessResult constructor: the derived fields in uint32_t arithmetic.
ProcessResult_WaitFromCompletion(process, completion_time) ==
    [id |-> process.id,
     arrival_time |-> process.arrival_time,
     burst_time |-> process.burst_time,
     completion_time |-> completion_time,
     turn_around_time |-> Sub32(completion_time, process.arrival_time),
     waiting_time |-> Sub32(completion_time, process.burst_time)]

ProcessResult(process, completion_time) ==
    LET tat == Sub32(completion_time, process.arrival_time)
    IN  [id |-> process.id,
         arrival_time |-> process.arrival_time,
         burst_time |-> process.burst_time,
         completion_time |-> completion_time,
         turn_around_time |-> tat,
         waiting_time |-> Sub32(tat, process.burst_time)]

CompareAT(p1, p2) == p1.arrival_time < p2.arrival_time

\* std::min_element(begin, end, CompareAT): index of the first smallest element.
RECURSIVE MinElementFrom(_, _, _)
MinElementFrom(procs, i, best) ==
    IF i > Len(procs) THEN best
    ELSE MinElementFrom(procs, i + 1,
                        IF CompareAT(procs[i], procs[best]) THEN i ELSE best)

min_element_First(procs) == 1

min_element(procs) == MinElementFrom(procs, 2, 1)

\* The for loop of CheckArriveProcess, from index i on.
RECURSIVE CheckArriveFrom_IgnoreArrival(_, _, _, _, _)
CheckArriveFrom_IgnoreArrival(procs, i, arrived, sched, t) ==
    IF i > Len(procs) THEN [arrived |-> arrived, schedule |-> sched]
    ELSE LET p == procs[i]
         IN  IF p.id \in arrived
             THEN CheckArriveFrom_IgnoreArrival(procs, i + 1, arrived, sched, t)
             ELSE CheckArriveFrom_IgnoreArrival(procs, i + 1, arrived \cup {p.id},
                                  Append(sched, Pair(p, p.burst_time)), t)

RECURSIVE CheckArriveFrom(_, _, _, _, _)
CheckArriveFrom(procs, i, arrived, sched, t) ==
    IF i > Len(procs) THEN [arrived |-> arrived, schedule |-> sched]
    ELSE LET p == procs[i]
         IN  IF p.arrival_time > t \/ p.id \in arrived
             THEN CheckArriveFrom(procs, i + 1, arrived, sched, t)
             ELSE CheckArriveFrom(procs, i + 1, arrived \cup {p.id},
                                  Append(sched, Pair(p, p.burst_time)), t)

CheckArriveProcess(procs, arrived, sched, t) ==
    CheckArriveFrom(procs, 1, arrived, sched, t)

\* uint32_t elapsed = (current.second > time_slice) ? time_slice : current.second
Elapsed_NoProgressOnLast(second, slice) == IF second > slice THEN slice ELSE 0

Elapsed(second, slice) == IF second > slice THEN slice ELSE second

\* Lines 190-199: admission, then either re-enqueue or emit the result.
QuantumEnd_RequeueFirst(procs, arrived, sched, res, cur, t) ==
    LET base == IF cur.second > 0 THEN Append(sched, cur) ELSE sched
        adm == CheckArriveProcess(procs, arrived, base, t)
    IN  IF cur.second > 0
        THEN [arrived |-> adm.arrived, schedule |-> adm.schedule, results |-> res]
        ELSE [arrived |-> adm.arrived, schedule |-> adm.schedule,
              results |-> Append(res, ProcessResult(cur.first, t))]

QuantumEnd_NoRequeue(procs, arrived, sched, res, cur, t) ==
    LET adm == CheckArriveProcess(procs, arrived, sched, t)
    IN  IF cur.second > 0
        THEN [arrived |-> adm.arrived, schedule |-> adm.schedule, results |-> res]
        ELSE [arrived |-> adm.arrived, schedule |-> adm.schedule,
              results |-> Append(res, ProcessResult(cur.first, t))]

QuantumEnd_ResultsFront(procs, arrived, sched, res, cur, t) ==
    LET adm == CheckArriveProcess(procs, arrived, sched, t)
    IN  IF cur.second > 0
        THEN [arrived |-> adm.arrived,
              schedule |-> Append(adm.schedule, cur),
              results |-> res]
        ELSE [arrived |-> adm.arrived,
              schedule |-> adm.schedule,
              results |-> <<ProcessResult(cur.first, t)>> \o res]

QuantumEnd(procs, arrived, sched, res, cur, t) ==
    LET adm == CheckArriveProcess(procs, arrived, sched, t)
    IN  IF cur.second > 0
        THEN [arrived |-> adm.arrived,
              schedule |-> Append(adm.schedule, cur),
              results |-> res]
        ELSE [arrived |-> adm.arrived,
              schedule |-> adm.schedule,
              results |-> Append(res, ProcessResult(cur.first, t))]

\* std::sort(first, last, CompareAT): insertion into a sorted prefix.
RECURSIVE SortInsert(_, _)
SortInsert(sorted, x) ==
    IF sorted = <<>> THEN <<x>>
    ELSE IF CompareAT(x, Head(sorted)) THEN <<x>> \o sorted
         ELSE <<Head(sorted)>> \o SortInsert(Tail(sorted), x)

RECURSIVE SortByAT(_)
SortByAT(s) ==
    IF s = <<>> THEN <<>>
    ELSE SortInsert(SortByAT(SubSeq(s, 1, Len(s) - 1)), s[Len(s)])

\* The fixture of Test().
TestProcesses ==
    <<Process(0, 70, 3), Process(1, 9, 2), Process(2, 3, 39),
      Process(3, 5, 29), Process(4, 30, 90)>>

correct_completion_times == <<80, 14, 100, 82, 166>>

correct_results ==
    [i \in 1..Len(TestProcesses) |->
        ProcessResult(TestProcesses[i], correct_completion_times[i])]

\* ------------------------------------------------------------------- inputs
\* Ids are the list positions, except that at most one process reuses the
\* id of an earlier one.
IdChoices(n) ==
    {f \in [1..n -> 0..(n - 1)] :
        /\ \A i \in 1..n : f[i] <= i - 1
        /\ Cardinality({i \in 1..n : f[i] # i - 1}) <= 1}

InitHistory ==
    /\ cpuUsed = 0
    /\ startedAt = [i \in IdsOf(processes) |-> -1]
    /\ ranBefore = [i \in IdsOf(processes) |-> {}]
    /\ preempted = {}
    /\ contended = {}
    /\ since = [i \in IdsOf(processes) |-> <<>>]
    /\ tieAhead = [i \in IdsOf(processes) |-> {}]
    /\ aheadAt = [i \in IdsOf(processes) |-> {}]

Init ==
    /\ \/ /\ caller = "Test"
          /\ processes = TestProcesses
          /\ time_slice = kTimeSlice
       \* a list that meets the preconditions: unique ids, burst_time >= 1,
       \* time_slice >= 1
       \/ /\ caller = "user"
          /\ time_slice \in 1..MaxTimeSlice
          /\ \E n \in 1..MaxProcs :
               \E at \in [1..n -> 0..MaxArrival] :
                 \E bt \in [1..n -> 1..MaxBurst] :
                   processes = [i \in 1..n |-> Process(i - 1, at[i], bt[i])]
       \* any (shorter) list: possibly empty, with a burst_time of 0, with a
       \* repeated id, with a time_slice of 0
       \/ /\ caller = "user"
          /\ time_slice \in 0..MaxTimeSlice
          /\ \E n \in 0..MaxUncheckedProcs :
               \E ids \in IdChoices(n) :
                 \E at \in [1..n -> 0..MaxArrival] :
                   \E bt \in [1..n -> 0..MaxBurst] :
                     processes = [i \in 1..n |-> Process(ids[i], at[i], bt[i])]
    /\ pc = "start"
    /\ schedule = <<>>
    /\ arrived_processes = {}
    /\ results = <<>>
    /\ time_elapsed = 0
    /\ current = NoPair
    /\ test_passed = "none"
    /\ InitHistory

\* ------------------------------------------------------------------ actions
\* Lines 165-176 for a non-empty list.
Start ==
    /\ pc = "start"
    /\ Len(processes) > 0
    /\ LET t0 == processes[min_element(processes)].arrival_time
           adm == CheckArriveProcess(processes, arrived_processes, schedule, t0)
       IN  /\ time_elapsed' = t0
           /\ arrived_processes' = adm.arrived
           /\ schedule' = adm.schedule
    /\ pc' = "loop"
    /\ UNCHANGED <<processes, time_slice, caller, results, current, test_passed>>
    /\ UNCHANGED histVars

\* Lines 165-176 for an empty list: min_element returns end() and the
\* dereference is undefined; the read yields any value or the call crashes.
StartEmpty ==
    /\ pc = "start"
    /\ Len(processes) = 0
    /\ \/ /\ \E garbage \in 0..MaxArrival : time_elapsed' = garbage
          /\ pc' = "loop"
       \/ /\ pc' = "crashed"
          /\ UNCHANGED time_elapsed
    /\ UNCHANGED <<processes, time_slice, caller, schedule, arrived_processes,
                   results, current, test_passed>>
    /\ UNCHANGED histVars

\* Lines 178-200: one iteration of the while loop.
LoopStep ==
    /\ pc = "loop"
    /\ schedule # <<>>
    /\ LET front == Head(schedule)
           popped == Tail(schedule)
           elapsed == Elapsed(front.second, time_slice)
           cur == Pair(front.first, Sub32(front.second, elapsed))
           now == Add32(time_elapsed, elapsed)
           q == QuantumEnd(processes, arrived_processes, popped, results, cur, now)
           id == front.first.id
           queued == {popped[i].first.id : i \in 1..Len(popped)}
           admitted == q.arrived \ arrived_processes
       IN  /\ current' = cur
           /\ time_elapsed' = now
           /\ arrived_processes' = q.arrived
           /\ schedule' = q.schedule
           /\ results' = q.results
           /\ cpuUsed' = cpuUsed + elapsed
           /\ startedAt' = IF startedAt[id] = -1
                           THEN [startedAt EXCEPT ![id] = cpuUsed]
                           ELSE startedAt
           /\ ranBefore' = IF startedAt[id] = -1
                           THEN [ranBefore EXCEPT ![id] =
                                   {j \in DOMAIN startedAt : startedAt[j] # -1}]
                           ELSE ranBefore
           /\ preempted' = IF cur.second > 0 THEN preempted \cup {id} ELSE preempted
           /\ contended' = IF elapsed > 0 THEN contended \cup queued ELSE contended
           /\ since' = [j \in DOMAIN since |->
                          IF j \in queued THEN Append(since[j], id) ELSE <<>>]
           /\ tieAhead' = [tieAhead EXCEPT ![id] =
                             IF cur.second > 0 THEN admitted ELSE {}]
           /\ aheadAt' = [aheadAt EXCEPT ![id] =
                            IF cur.second > 0 THEN queued \cup admitted ELSE {}]
    /\ UNCHANGED <<processes, time_slice, caller, pc, test_passed>>

\* Line 178 with an empty queue, and line 202.
Return ==
    /\ pc = "loop"
    /\ schedule = <<>>
    /\ pc' = "done"
    /\ UNCHANGED <<processes, time_slice, caller, schedule, arrived_processes,
                   results, time_elapsed, current, test_passed>>
    /\ UNCHANGED histVars

\* Lines 147-160 of Test(): sort both vectors by arrival time and compare.
TestAssert ==
    /\ pc = "done"
    /\ caller = "Test"
    /\ test_passed' = IF SortByAT(results) = SortByAT(correct_results)
                      THEN "pass" ELSE "fail"
    /\ pc' = "tested"
    /\ UNCHANGED <<processes, time_slice, caller, schedule, arrived_processes,
                   results, time_elapsed, current>>
    /\ UNCHANGED histVars

Next == Start \/ StartEmpty \/ LoopStep \/ Return \/ TestAssert

Spec == Init /\ [][Next]_vars

\* Calls that respect the preconditions on the list and the time slice that
\* progress depends on: a non-empty list, burst_time >= 1, time_slice >= 1.
\* The program is sequential: whatever step it can take, it takes.
InitLive ==
    /\ Init
    /\ Len(processes) >= 1
    /\ \A i \in 1..Len(processes) : processes[i].burst_time >= 1
    /\ time_slice >= 1

NextLive == Start \/ LoopStep \/ Return \/ TestAssert

LiveSpec == InitLive /\ [][NextLive]_vars
                     /\ WF_vars(Start) /\ WF_vars(LoopStep)
                     /\ WF_vars(Return) /\ WF_vars(TestAssert)

\* ------------------------------------------------------- property vocabulary
Returned == pc \in {"done", "tested"}

NonEmpty == Len(processes) >= 1

UniqueIds == Cardinality(IdsOf(processes)) = Len(processes)

PositiveBursts == \A i \in 1..Len(processes) : processes[i].burst_time >= 1

ValidInput == NonEmpty /\ UniqueIds /\ PositiveBursts /\ time_slice >= 1

ResultIds == {results[k].id : k \in 1..Len(results)}

QueuedIds == {schedule[k].first.id : k \in 1..Len(schedule)}

MinArrival ==
    CHOOSE a \in {processes[i].arrival_time : i \in 1..Len(processes)} :
        \A i \in 1..Len(processes) : a <= processes[i].arrival_time

RECURSIVE SumSecond(_)
SumSecond(sched) ==
    IF sched = <<>> THEN 0 ELSE Head(sched).second + SumSecond(Tail(sched))

\* Sum of burst_time over the input processes whose id is in S.
RECURSIVE SumBurstFrom(_, _)
SumBurstFrom(i, S) ==
    IF i > Len(processes) THEN 0
    ELSE (IF processes[i].id \in S THEN processes[i].burst_time ELSE 0)
         + SumBurstFrom(i + 1, S)

QueuedRemaining == SumSecond(schedule)

TotalRemaining ==
    QueuedRemaining + SumBurstFrom(1, IdsOf(processes) \ arrived_processes)

Iteration == pc = "loop" /\ schedule # <<>>

\* ------------------------------------------------------------------- claims

\* C1: for a non-empty list with unique ids, burst_time >= 1 and
\* time_slice >= 1, when RRExecute returns there are as many results as input
\* processes and every input id appears exactly once among them.
C1_Conservation ==
    (Returned /\ ValidInput) =>
        /\ Len(results) = Len(processes)
        /\ \A i \in 1..Len(processes) :
             Cardinality({k \in 1..Len(results) :
                            results[k].id = processes[i].id}) = 1

\* C2: the fixture of Test() with time_slice 3 yields five results with
\* completion times 0->80, 1->14, 2->100, 3->82, 4->166, turnaround and
\* waiting times derived from them, and the assertion of Test() holds.
C2_ReferenceScenario ==
    (caller = "Test" /\ Returned) =>
        /\ Len(results) = 5
        /\ ResultIds = 0..4
        /\ \A k \in 1..Len(results) :
             LET r == results[k]
                 p == TestProcesses[r.id + 1]
             IN  /\ r.completion_time = <<80, 14, 100, 82, 166>>[r.id + 1]
                 /\ r.arrival_time = p.arrival_time
                 /\ r.burst_time = p.burst_time
                 /\ r.turn_around_time = r.completion_time - p.arrival_time
                 /\ r.waiting_time = r.turn_around_time - p.burst_time
        /\ (pc = "tested" => test_passed = "pass")

C2_Witness == caller = "Test" /\ pc = "tested" /\ Len(results) = 5

\* C3: when an iteration admits new processes and the process that just ran
\* still has remaining burst time, the new processes are in the queue ahead
\* of the re-enqueued process, which is last; and when that process is next
\* at the front of the queue, each of them has been dequeued in between.
C3_TieBreak ==
    /\ [][(Iteration /\ current'.second > 0
                     /\ arrived_processes' # arrived_processes) =>
            LET n == Len(schedule')
                new == arrived_processes' \ arrived_processes
            IN  /\ schedule'[n] = current'
                /\ \A i \in new :
                     \E k \in 1..(n - 1) : schedule'[k].first.id = i
                /\ SubSeq(schedule', 1, Len(schedule) - 1) = Tail(schedule)]_vars
    /\ [](Iteration =>
            LET p == Head(schedule).first.id
            IN  tieAhead[p] \subseteq Range(since[p]))

C3_Witness ==
    /\ Iteration
    /\ Cardinality(tieAhead[Head(schedule).first.id]) >= 2
    /\ Head(schedule).first.id \in preempted

\* C4: for inputs with burst_time >= 1 and time_slice >= 1 every emitted
\* result has completion_time >= arrival_time + burst_time, turnaround_time
\* >= burst_time and waiting_time >= 0, the derived fields being the exact
\* differences (no wrap-around).
C4_LowerBound ==
    (PositiveBursts /\ time_slice >= 1) =>
        \A k \in 1..Len(results) :
            LET r == results[k]
            IN  /\ r.completion_time >= r.arrival_time + r.burst_time
                /\ r.turn_around_time = r.completion_time - r.arrival_time
                /\ r.turn_around_time >= r.burst_time
                /\ r.waiting_time = r.turn_around_time - r.burst_time
                /\ r.waiting_time >= 0

C4_Witness ==
    /\ PositiveBursts /\ time_slice >= 1 /\ Returned
    /\ \E k \in 1..Len(results) : results[k].waiting_time > 0
    /\ \E k \in 1..Len(results) : results[k].waiting_time = 0

\* C5 (as stated): for a non-empty list with burst_time >= 1 and time_slice
\* >= 1 the loop terminates, the total remaining burst time over the queued
\* processes strictly decreasing on every iteration.
C5_QueuedRemainingDecreases ==
    /\ (NonEmpty /\ PositiveBursts /\ time_slice >= 1) => <>Returned
    /\ [][(Iteration /\ PositiveBursts /\ time_slice >= 1) =>
            QueuedRemaining' < QueuedRemaining]_vars

\* C5 (amended): for a non-empty list with burst_time >= 1 and time_slice
\* >= 1 the loop terminates, the total remaining burst time over the queued
\* and the not yet admitted processes strictly decreasing on every iteration.
C5_Termination ==
    /\ (NonEmpty /\ PositiveBursts /\ time_slice >= 1) => <>Returned
    /\ [][(Iteration /\ PositiveBursts /\ time_slice >= 1) =>
            TotalRemaining' < TotalRemaining]_vars

C5_Witness ==
    /\ pc = "done" /\ ValidInput
    /\ Len(results) >= 2
    /\ preempted # {}

\* C6: with time_slice = 0, a non-empty list and burst_time >= 1, the call
\* ends in an InvalidArgument failure and never enters the loop.
C6_ZeroTimeSliceRejected ==
    (time_slice = 0 /\ NonEmpty /\ PositiveBursts /\ pc # "start") =>
        pc = "InvalidArgument"

\* C7: an empty list, a burst_time of 0 and duplicate ids are rejected with
\* InvalidArgument before any simulation step: nothing is admitted and no
\* result is emitted.
C7_EagerValidation ==
    ((~NonEmpty \/ ~PositiveBursts \/ ~UniqueIds) /\ pc # "start") =>
        /\ pc = "InvalidArgument"
        /\ schedule = <<>>
        /\ arrived_processes = {}
        /\ results = <<>>

\* C8: with time_slice >= 1 and burst_time >= 1, every process admitted to
\* the ready queue eventually has its result emitted: an admitted id stays
\* admitted, an emitted result stays emitted, and again and again every
\* process admitted so far has its result.
C8_StarvationFree ==
    /\ [][/\ arrived_processes \subseteq arrived_processes'
          /\ ResultIds \subseteq ResultIds']_vars
    /\ []<>((PositiveBursts /\ time_slice >= 1) =>
              \A i \in arrived_processes : i \in ResultIds)

C8_Witness ==
    /\ PositiveBursts /\ time_slice >= 1
    /\ Len(schedule) >= 2
    /\ QueuedIds \subseteq preempted

\* C9 (as stated): a result has waiting_time 0 only if its process was never
\* returned to the ready queue with remaining burst time > 0.
C9_ZeroWaitNeverRequeued ==
    \A k \in 1..Len(results) :
        results[k].waiting_time = 0 => results[k].id \notin preempted

\* C9 (amended): a result has waiting_time 0 only if its process never sat
\* in the ready queue while another process ran for a positive time.
C9_ZeroWaitNeverBehind ==
    \A k \in 1..Len(results) :
        results[k].waiting_time = 0 => results[k].id \notin contended

C9_Witness ==
    /\ Returned
    /\ \E k \in 1..Len(results) :
         results[k].waiting_time = 0 /\ results[k].id \in preempted
    /\ \E k \in 1..Len(results) :
         results[k].waiting_time > 0 /\ results[k].id \in contended

\* C10 (as stated): a process with burst_time <= time_slice has a
\* waiting_time equal to the sum of the burst_time of the processes that ran
\* before its first dequeue.
C10_ShortWaitIsSumOfBursts ==
    ValidInput =>
        \A k \in 1..Len(results) :
            results[k].burst_time <= time_slice =>
                results[k].waiting_time = SumBurstFrom(1, ranBefore[results[k].id])

\* C10 (amended): a process with burst_time <= time_slice has a waiting_time
\* equal to the clock at its first dequeue minus its arrival_time, the clock
\* being the minimum arrival time plus the total length of the quanta
\* executed before that dequeue.
C10_ShortWaitIsClockAtDequeue ==
    \A k \in 1..Len(results) :
        results[k].burst_time <= time_slice =>
            results[k].waiting_time =
                MinArrival + startedAt[results[k].id] - results[k].arrival_time

C10_Witness ==
    /\ Returned /\ ValidInput
    /\ \E k \in 1..Len(results) :
         /\ results[k].burst_time <= time_slice
         /\ ranBefore[results[k].id] # {}
         /\ results[k].waiting_time # SumBurstFrom(1, ranBefore[results[k].id])
         /\ results[k].waiting_time > 0

\* C11: for a list of exactly one process with arrival time a, burst time
\* b >= 1 and time_slice >= 1, RRExecute returns exactly one result, with
\* completion_time a + b, turnaround_time b and waiting_time 0.
C11_SingleProcess ==
    (Returned /\ Len(processes) = 1 /\ PositiveBursts /\ time_slice >= 1) =>
        /\ Len(results) = 1
        /\ results[1].id = processes[1].id
        /\ results[1].completion_time =
               processes[1].arrival_time + processes[1].burst_time
        /\ results[1].turn_around_time = processes[1].burst_time
        /\ results[1].waiting_time = 0

C11_Witness ==
    /\ Returned /\ Len(processes) = 1 /\ Len(results) = 1
    /\ processes[1].arrival_time > 0
    /\ processes[1].burst_time > time_slice
    /\ time_slice >= 1

\* C12: every emitted result carries the id, arrival_time and burst_time of
\* an input process, namely the one whose remaining burst time reached zero
\* in the iteration that emitted it; its completion_time is time_elapsed at
\* the end of that iteration, turnaround_time = completion_time -
\* arrival_time and waiting_time = turnaround_time - burst_time.
C12_DerivedFields ==
    /\ [](\A k \in 1..Len(results) :
            LET r == results[k]
            IN  /\ \E i \in 1..Len(processes) :
                     processes[i] = Process(r.id, r.arrival_time, r.burst_time)
                /\ r.turn_around_time = r.completion_time - r.arrival_time
                /\ r.waiting_time = r.turn_around_time - r.burst_time)
    /\ [][results' # results =>
            LET r == results'[Len(results')]
            IN  /\ results' = Append(results, r)
                /\ current'.second = 0
                /\ Process(r.id, r.arrival_time, r.burst_time) = current'.first
                /\ current'.first = Head(schedule).first
                /\ r.completion_time = time_elapsed']_vars

C12_Witness ==
    /\ Returned
    /\ \E k \in 1..Len(results) :
         /\ results[k].arrival_time > 0
         /\ results[k].waiting_time > 0
         /\ results[k].id \in preempted

\* The pairs an admission check appends for the ids in S: the input
\* processes with such an id, in the order of the input list, each with its
\* whole burst_time left.
AdmittedPairs(S) ==
    LET InS(p) == p.id \in S
        sel == SelectSeq(processes, InS)
    IN  [k \in 1..Len(sel) |-> Pair(sel[k], sel[k].burst_time)]

\* C13: with unique ids, after the initial admission check and after the
\* check of every iteration the arrived set is exactly the set of ids of the
\* input processes with arrival_time <= time_elapsed; the processes a check
\* admits are appended to the queue once each, in the order of the input
\* list, behind what the queue held and ahead of a re-enqueued process.
C13_AdmissionRule ==
    /\ []((UniqueIds /\ NonEmpty /\ pc # "start") =>
            arrived_processes =
                {processes[i].id : i \in
                    {j \in 1..Len(processes) :
                        processes[j].arrival_time <= time_elapsed}})
    /\ [][(UniqueIds /\ pc = "start" /\ pc' = "loop") =>
            schedule' = AdmittedPairs(arrived_processes')]_vars
    /\ [][(UniqueIds /\ Iteration) =>
            LET last == IF current'.second > 0
                        THEN Len(schedule') - 1 ELSE Len(schedule')
            IN  /\ arrived_processes \subseteq arrived_processes'
                /\ SubSeq(schedule', 1, Len(schedule) - 1) = Tail(schedule)
                /\ SubSeq(schedule', Len(schedule), last) =
                       AdmittedPairs(arrived_processes' \ arrived_processes)]_vars

C13_Witness ==
    /\ UniqueIds /\ pc = "loop" /\ time_slice >= 1
    /\ Cardinality(arrived_processes) = 3
    /\ \E i \in DOMAIN tieAhead : Cardinality(tieAhead[i]) = 2
    /\ Len(schedule) = 3

\* C14: in every iteration the front process runs for min(time_slice,
\* remaining burst time): its remaining burst time decreases and
\* time_elapsed increases by exactly that amount, which never exceeds
\* time_slice, and no remaining burst time is below zero.
C14_QuantumStep ==
    /\ [][Iteration =>
            LET front == Head(schedule)
                run_for == time_elapsed' - time_elapsed
            IN  /\ run_for \in {time_slice, front.second}
                /\ run_for <= time_slice
                /\ run_for <= front.second
                /\ current'.first = front.first
                /\ current'.second = front.second - run_for
                /\ current'.second >= 0
                /\ cpuUsed' = cpuUsed + run_for]_vars
    /\ [](\A k \in 1..Len(schedule) :
            schedule[k].second >= 0 /\
            schedule[k].second <= schedule[k].first.burst_time)

C14_Witness ==
    /\ pc = "loop" /\ time_slice >= 2
    /\ preempted # {}
    /\ current.second = 0
    /\ current.first.burst_time < time_slice
    /\ current.first.burst_time >= 1
    /\ schedule # <<>>

TimesQueued(i) == Cardinality({k \in 1..Len(schedule) : schedule[k].first.id = i})

TimesEmitted(i) == Cardinality({k \in 1..Len(results) : results[k].id = i})

\* C15: with unique ids, burst_time >= 1 and time_slice >= 1, at the start
\* of every iteration each admitted id is either once in the queue, with
\* 1 <= remaining burst time <= burst_time, or once in the results, and
\* nothing else is in either; a finished process never re-enters the queue,
\* and a result is emitted only for an admitted process whose remaining
\* burst time is zero.
C15_Lifecycle ==
    /\ []((ValidInput /\ pc = "loop") =>
            /\ \A i \in arrived_processes : TimesQueued(i) + TimesEmitted(i) = 1
            /\ QueuedIds \cup ResultIds \subseteq arrived_processes
            /\ \A k \in 1..Len(schedule) :
                 /\ schedule[k].second >= 1
                 /\ schedule[k].second <= schedule[k].first.burst_time)
    /\ [][ValidInput =>
            /\ ResultIds \cap {schedule'[k].first.id : k \in 1..Len(schedule')} = {}
            /\ results' # results =>
                 /\ current'.second = 0
                 /\ current'.first.id \in arrived_processes
                 /\ current'.first.id \in QueuedIds]_vars

C15_Witness ==
    /\ ValidInput /\ pc = "loop"
    /\ Len(results) >= 1
    /\ \E k \in 1..Len(schedule) :
         schedule[k].second < schedule[k].first.burst_time
    /\ \E k \in 1..Len(schedule) :
         schedule[k].second = schedule[k].first.burst_time

\* Burst time consumed by the processes in the queue.
RECURSIVE SumConsumed(_)
SumConsumed(sched) ==
    IF sched = <<>> THEN 0
    ELSE (Head(sched).first.burst_time - Head(sched).second)
         + SumConsumed(Tail(sched))

\* Burst time of the finished processes.
RECURSIVE SumFinished(_)
SumFinished(res) ==
    IF res = <<>> THEN 0 ELSE Head(res).burst_time + SumFinished(Tail(res))

\* C16: time_elapsed is initialised to the minimum arrival_time of the
\* input; at the start of every iteration it equals that minimum plus the
\* burst time consumed so far by the admitted processes (a finished process
\* counting its whole burst_time); and it never advances while the queue is
\* empty.
C16_Clock ==
    /\ [][(NonEmpty /\ pc = "start" /\ pc' = "loop") =>
            time_elapsed' = MinArrival]_vars
    /\ []((NonEmpty /\ pc = "loop") =>
            time_elapsed =
                MinArrival + SumConsumed(schedule) + SumFinished(results))
    /\ [][(pc # "start" /\ schedule = <<>>) =>
            time_elapsed' = time_elapsed]_vars

C16_Witness ==
    /\ NonEmpty /\ pc = "loop"
    /\ MinArrival > 0
    /\ Len(results) >= 1
    /\ \E k \in 1..Len(schedule) :
         schedule[k].second < schedule[k].first.burst_time

NoRepeats(seq) == Cardinality(Range(seq)) = Len(seq)

\* C17: between two consecutive quanta of a process P that was re-enqueued
\* with remaining burst time > 0, no other process gets more than one
\* quantum, and when P is at the front again every process that was in the
\* queue when P was re-enqueued has had exactly one quantum, and no other
\* process has had any.
C17_FairnessBound ==
    /\ \A k \in 1..Len(schedule) :
         LET p == schedule[k].first.id
         IN  p \in preempted =>
                /\ NoRepeats(since[p])
                /\ Range(since[p]) \subseteq aheadAt[p]
    /\ Iteration =>
         LET p == Head(schedule).first.id
         IN  p \in preempted => Range(since[p]) = aheadAt[p]

C17_Witness ==
    /\ Iteration /\ time_slice >= 1
    /\ Head(schedule).first.id \in preempted
    /\ Len(since[Head(schedule).first.id]) >= 2
    /\ tieAhead[Head(schedule).first.id] # {}

\* C18: results are appended in the order in which the processes finish;
\* with burst_time >= 1 and time_slice >= 1 the completion_time values are
\* strictly increasing along the returned sequence.
C18_ResultOrder ==
    /\ [][results' # results =>
            /\ Len(results') = Len(results) + 1
            /\ SubSeq(results', 1, Len(results)) = results
            /\ results'[Len(results')].completion_time = time_elapsed']_vars
    /\ []((PositiveBursts /\ time_slice >= 1) =>
            \A k \in 1..(Len(results) - 1) :
                results[k].completion_time < results[k + 1].completion_time)

C18_Witness ==
    /\ Returned /\ PositiveBursts /\ time_slice >= 1
    /\ Len(results) >= 3
    /\ results[1].id # 0
====
